---------------------------- MODULE Spec2Model ----------------------------
(***************************************************************************)
(* A model of the ATMEL AT97SC3204T I2C TPM driver, src/tpm_i2c_atmel.c:   *)
(* the bounded-retry bus read tpm_i2c_read, the two-phase response read    *)
(* tpm_tis_i2c_read and the write path tpm_tis_i2c_write, all working on   *)
(* the single shared buffer tpm_dev.buf.                                   *)
(*                                                                         *)
(* Five specifications share the module.                                   *)
(*   Spec          the file operations, one whole handler per step, called *)
(*                 one after the other (no two overlap);                   *)
(*   SpecDecode    one read() on the loaded driver, for every length field *)
(*                 a device can send;                                      *)
(*   SpecRetry     one call of tpm_i2c_read, one statement per step, with  *)
(*                 the retry loop unrolled attempt by attempt;             *)
(*   SpecConc      a read() and a write() in two threads, one statement    *)
(*                 per step, interleaved freely;                           *)
(*   SpecReadFair  one read(), one statement per step, in a thread that is *)
(*                 scheduled fairly.                                       *)
(* Spec uses the closed form of the retry loop (tpm_i2c_read below);       *)
(* SpecRetry checks that closed form against the loop itself               *)
(* (RetrySummaryAgrees).                                                   *)
(***************************************************************************)
EXTENDS Integers, Sequences, FiniteSets, TLC

---------------------------------------------------------------------------
(* Program constants.                                                      *)

TPM_BUFSIZE == 1024

TPM_HEADER_SIZE == 6

trapdoor_limit == 60000

EFAULT == 14

EOPNOTSUPP == 95

EINVAL == 22

EIO == 5

---------------------------------------------------------------------------
(* Inputs the environment may supply.                                      *)

\* Results i2c_transfer may report for a one-message transfer: a negative
\* errno, zero messages, or the one message transferred.
RawResults == {-121, 0, 1}

\* A length well inside the buffer, for a response and for a payload.
MidLen == 30

\* The length fields the device may announce: the ends of the 16-bit range,
\* the values on either side of TPM_HEADER_SIZE and of TPM_BUFSIZE, MidLen,
\* and 258 (bytes 1 and 2, which a byte swap would turn into 513).
LengthFields ==
    {0, TPM_HEADER_SIZE, TPM_HEADER_SIZE + 1, MidLen, 258, TPM_BUFSIZE,
     TPM_BUFSIZE + 1, 65535}

\* Bytes 4 and 5 of the response header the device sends: the length field,
\* high byte first.
HeaderPairs == {<<n \div 256, n % 256>> : n \in LengthFields}

\* How many raw reads report a non-positive result before the first positive
\* one; trapdoor_limit stands for "all of them".
FailCounts == {0, trapdoor_limit - 1, trapdoor_limit}

\* len arguments of the tpm_i2c_read call SpecRetry follows, and the length
\* field of the response the device then sends.
RetryLens == {TPM_HEADER_SIZE, MidLen}

RetryHeader == <<MidLen \div 256, MidLen % 256>>

\* count arguments of read().
ReadCounts == {0, 4096}

\* count arguments of write().
WriteCounts == {0, 1, MidLen, TPM_BUFSIZE, TPM_BUFSIZE + 1}

\* The caller's payloads: payload <<p>> holds the byte PayloadByte(<<p>>, i)
\* at index i.
Payloads == {<<17>>, <<34>>}

---------------------------------------------------------------------------
(* Bytes.                                                                  *)

Min(a, b) == IF a < b THEN a ELSE b

\* A variant of U8 that keeps the int: the return type taken for a signed
\* one wide enough for the error codes.
U8_wide(x) == x

\* Conversion of an int to u8, the return type of tpm_i2c_read.
U8(x) == x % 256

BufIndex == 0..(TPM_BUFSIZE - 1)

\* The i-th byte the device sends for a response whose length field is h.
DeviceByte(h, i) ==
    IF i = 1 THEN 196
    ELSE IF i = 4 THEN h[1]
    ELSE IF i = 5 THEN h[2]
    ELSE IF i < TPM_HEADER_SIZE THEN 0
    ELSE 165

\* The i-th byte of the caller's payload p.
PayloadByte(p, i) == (p[1] + i) % 256

---------------------------------------------------------------------------
(* State.                                                                  *)

VARIABLES
    tpm_dev,      \* the memory from &tpm_dev.buf[0] on (see Memory below)
    master_xfer,  \* whether the adapter implements algo->master_xfer
    crashed,      \* an out-of-bounds access faulted: the handler never returned
    op,           \* the last file operation called
    arg,          \* its arguments
    ret,          \* its return value
    expected,     \* tpm_tis_i2c_read's local expected, the decoded length
    calls,        \* the tpm_i2c_read calls it made, in order
    wire,         \* the raw write transfers it issued, in order
    user,         \* what copy_to_user delivered to its caller
    pc,           \* SpecRetry: the statement tpm_i2c_read is at
    len,          \* SpecRetry: tpm_i2c_read's len argument
    trapdoor,     \* SpecRetry: tpm_i2c_read's local trapdoor
    rc,           \* SpecRetry: tpm_i2c_read's local rc
    lock,         \* SpecRetry: whether the driver holds the adapter lock
    xfers,        \* SpecRetry: the number of raw transfers made so far
    hits,         \* SpecRetry: how many of them reported a positive result
    retval,       \* SpecRetry: the value tpm_i2c_read returned
    rpc,          \* SpecConc: the statement the thread in read() is at
    wpc,          \* SpecConc: the statement the thread in write() is at
    warg,         \* SpecConc: the arguments of that write()
    wret          \* SpecConc: its return value

opvars == <<crashed, op, arg, ret, expected, calls, wire, user>>

retryvars == <<pc, len, trapdoor, rc, lock, xfers, hits, retval>>

procvars == <<rpc, wpc, warg, wret>>

vars == <<tpm_dev, master_xfer, crashed, op, arg, ret, expected, calls, wire,
          user, pc, len, trapdoor, rc, lock, xfers, hits, retval, rpc, wpc,
          warg, wret>>

---------------------------------------------------------------------------
(* Memory. Every store of the driver fills the bytes [0, n) counted from    *)
(* &tpm_dev.buf[0] from one source: memset (n = TPM_BUFSIZE), a device     *)
(* transfer, or copy_from_user. The memory is therefore kept as the list   *)
(* of these stores that are still visible, newest first: a sequence of     *)
(* layers [n, kind, par, old] with strictly growing n, where byte i is the *)
(* byte of the first layer with n > i. A byte at an index >= TPM_BUFSIZE   *)
(* lies after tpm_dev.buf (tpm_dev.chip and what the linker put next); a   *)
(* byte under no layer is such memory, which the driver never wrote.       *)
(*   kind "zero": written by memset;                                       *)
(*   kind "dev":  sent by the device, response with length field par;      *)
(*   kind "usr":  copied from the caller's payload par;                    *)
(*   old:         stored by an earlier operation than the current one.     *)

ZeroLayer(n) == [n |-> n, kind |-> "zero", par |-> <<>>, old |-> FALSE]

DevLayer(n, h) == [n |-> n, kind |-> "dev", par |-> h, old |-> FALSE]

UsrLayer(n, p) == [n |-> n, kind |-> "usr", par |-> p, old |-> FALSE]

\* Memory the driver never wrote, up to index n.
MemLayer(n) == [n |-> n, kind |-> "mem", par |-> <<>>, old |-> TRUE]

\* Store the layer l over the bytes [0, l.n).
Store(m, l) ==
    IF l.n = 0 THEN m
    ELSE <<l>> \o SelectSeq(m, LAMBDA x : x.n > l.n)

\* The layer byte i lies in.
LayerAt(m, i) ==
    LET over == {k \in 1..Len(m) : m[k].n > i}
    IN  IF over = {} THEN MemLayer(i + 1)
        ELSE m[CHOOSE k \in over : \A j \in over : k <= j]

\* The value of byte i, known for every byte the driver has written.
ByteAt(m, i) ==
    LET l == LayerAt(m, i)
    IN  CASE l.kind = "zero" -> 0
          [] l.kind = "dev"  -> DeviceByte(l.par, i)
          [] l.kind = "usr"  -> PayloadByte(l.par, i)

\* Where a layer's bytes came from: "zero", "dev" or "usr" (this
\* operation), "old" (an earlier operation), "mem" (never written).
Origin(l) ==
    IF l.kind \in {"zero", "mem"} THEN l.kind
    ELSE IF l.old THEN "old"
    ELSE l.kind

\* The bytes [0, n) of m, as a memory of their own.
Prefix(m, n) ==
    LET under == SelectSeq(m, LAMBDA x : x.n < n)
        rest  == SelectSeq(m, LAMBDA x : x.n >= n)
    IN  IF n = 0 THEN <<>>
        ELSE IF rest = <<>> THEN under \o <<MemLayer(n)>>
        ELSE under \o <<[rest[1] EXCEPT !.n = n]>>

\* Bookkeeping at the start of an operation: what the previous operations
\* stored becomes old.
Aged(m) ==
    [k \in 1..Len(m) |->
        IF m[k].kind = "zero" THEN m[k] ELSE [m[k] EXCEPT !.old = TRUE]]

\* A variant of memset that leaves the buffer as it is.
memset_none(m) == m

\* memset(tpm_dev.buf, 0x00, TPM_BUFSIZE)
memset(m) == Store(m, ZeroLayer(TPM_BUFSIZE))

\* A successful i2c_transfer of the read message { addr, I2C_M_RD, n,
\* tpm_dev.buf }: the adapter stores the n bytes the device sends from
\* tpm_dev.buf[0] on, past the end of the buffer when n > TPM_BUFSIZE.
i2c_transfer_read(m, n, h) == Store(m, DevLayer(n, h))

\* copy_to_user(buf, tpm_dev.buf, n) that leaves `uncopied` bytes uncopied
\* (its return value): what the caller's buffer then holds.
copy_to_user(m, n, uncopied) ==
    [len |-> n - uncopied, uncopied |-> uncopied,
     data |-> Prefix(m, n - uncopied)]

\* copy_from_user(tpm_dev.buf, buf, n) that leaves `uncopied` bytes uncopied.
copy_from_user(m, p, n, uncopied) == Store(m, UsrLayer(n - uncopied, p))

\* The values copy_to_user / copy_from_user of n bytes may return: 0 on
\* success, otherwise the number of bytes left uncopied.
Uncopied(n) == {0, 1, n} \cap 0..n

NoUser == [len |-> 0, uncopied |-> 0, data |-> <<>>]

---------------------------------------------------------------------------
(* tpm_i2c_read, as the handlers of Spec call it: the whole call in one    *)
(* step, given how many raw transfers fail before the first one that       *)
(* succeeds.                                                               *)

\* The loop of lines 91-97 in closed form: the number of i2c_transfer calls
\* made when the first `fails` of them report a non-positive result.
Attempts(fails) == Min(fails + 1, trapdoor_limit)

\* tpm_i2c_read(tpm_dev.buf, n) on memory m, when the first `fails` raw
\* transfers report a non-positive result and the next one, if the loop gets
\* to it, reports 1 and carries the response with length field h.
tpm_i2c_read(m, n, supported, fails, h) ==
    IF ~supported
    THEN [m |-> m, ret |-> U8(-EOPNOTSUPP), len |-> n, attempts |-> 0,
          moved |-> 0, locks |-> 0, unlocks |-> 0]
    ELSE IF fails >= trapdoor_limit
    THEN [m |-> m, ret |-> U8(-EFAULT), len |-> n,
          attempts |-> Attempts(fails), moved |-> 0, locks |-> 1,
          unlocks |-> 1]
    ELSE [m |-> i2c_transfer_read(m, n, h), ret |-> U8(1), len |-> n,
          attempts |-> Attempts(fails), moved |-> n, locks |-> 1,
          unlocks |-> 1]

\* The part of a call the claims look at.
CallOf(c) ==
    [len |-> c.len, off |-> 0, ret |-> c.ret, attempts |-> c.attempts,
     moved |-> c.moved, locks |-> c.locks, unlocks |-> c.unlocks]

---------------------------------------------------------------------------
(* tpm_tis_i2c_write, lines 147-175.                                       *)

\* A variant of WriteTooLong that also refuses count = TPM_BUFSIZE.
WriteTooLong_ge(count) == count >= TPM_BUFSIZE

\* Line 155: the size check.
WriteTooLong(count) == count > TPM_BUFSIZE

\* A variant of WriteResult that passes the transfer's own result on.
WriteResult_rc(count, r) == IF r <= 0 THEN -EIO ELSE r

\* Lines 171-174: the return value after the raw transfer reported r.
WriteResult(count, r) == IF r <= 0 THEN -EIO ELSE count

\* A variant of tpm_tis_i2c_write that clears the buffer before it tests the
\* size.
tpm_tis_i2c_write_clear_first(m, count, p, uncopied, r) ==
    LET m1 == memset(m)
        m2 == copy_from_user(m1, p, count, uncopied)
    IN  IF WriteTooLong(count)
        THEN [m |-> m1, ret |-> -EINVAL, wire |-> <<>>]
        ELSE IF uncopied # 0
             THEN [m |-> m2, ret |-> -EFAULT, wire |-> <<>>]
             ELSE [m    |-> m2,
                   ret  |-> WriteResult(count, r),
                   wire |-> <<[len  |-> count, rc |-> r,
                               data |-> Prefix(m2, count)]>>]

\* The whole handler on memory m: count bytes of payload p, of which
\* copy_from_user leaves `uncopied` uncopied, and a raw transfer that
\* reports r.
tpm_tis_i2c_write(m, count, p, uncopied, r) ==
    IF WriteTooLong(count)
    THEN [m |-> m, ret |-> -EINVAL, wire |-> <<>>]
    ELSE LET m1 == memset(m)
             m2 == copy_from_user(m1, p, count, uncopied)
         IN  IF uncopied # 0
             THEN [m |-> m2, ret |-> -EFAULT, wire |-> <<>>]
             ELSE [m    |-> m2,
                   ret  |-> WriteResult(count, r),
                   wire |-> <<[len  |-> count, rc |-> r,
                               data |-> Prefix(m2, count)]>>]

---------------------------------------------------------------------------
(* tpm_tis_i2c_read, lines 109-145.                                        *)

\* A variant of Expected that takes the length field low byte first.
Expected_low_first(m) == (ByteAt(m, 5) * 256) + ByteAt(m, 4)

\* Lines 120-122: expected = buf[4]; expected = expected << 8;
\* expected += buf[5].
Expected(m) == (ByteAt(m, 4) * 256) + ByteAt(m, 5)

\* A variant of HeaderOnly that reads a body for a response of exactly
\* TPM_HEADER_SIZE bytes.
HeaderOnly_lt(e) == e < TPM_HEADER_SIZE

\* Line 125: the response is complete after the header read.
HeaderOnly(e) == e <= TPM_HEADER_SIZE

\* A variant of tpm_tis_i2c_read that honours the caller's count: it
\* delivers and returns at most count bytes.
tpm_tis_i2c_read_counted(m, count, supported, f1, h, f2, uncopied, trap) ==
    LET m1       == memset(m)
        c1       == tpm_i2c_read(m1, TPM_HEADER_SIZE, supported, f1, h)
        e        == Expected(c1.m)
        c2       == tpm_i2c_read(c1.m, e, supported, f2, h)
        m2       == IF HeaderOnly(e) THEN c1.m ELSE c2.m
        made     == IF HeaderOnly(e) THEN <<CallOf(c1)>>
                    ELSE <<CallOf(c1), CallOf(c2)>>
        n        == Min(e, count)
        left     == Min(uncopied, n)
        outside  == \/ ~HeaderOnly(e) /\ c2.moved > TPM_BUFSIZE
                    \/ n - left > TPM_BUFSIZE
    IN  IF outside /\ trap
        THEN [m |-> m2, crashed |-> TRUE, ret |-> 0, expected |-> e,
              calls |-> made, user |-> NoUser]
        ELSE [m |-> m2, crashed |-> FALSE,
              ret |-> IF left # 0 THEN -EFAULT ELSE n,
              expected |-> e, calls |-> made,
              user |-> copy_to_user(m2, n, left)]

\* The whole handler on memory m. count is the caller's requested size; the
\* header read sees f1 failing transfers and the body read f2; the device
\* answers with length field h; copy_to_user leaves `uncopied` bytes
\* uncopied; trap says whether an access outside tpm_dev.buf faults.
tpm_tis_i2c_read(m, count, supported, f1, h, f2, uncopied, trap) ==
    LET m1       == memset(m)
        c1       == tpm_i2c_read(m1, TPM_HEADER_SIZE, supported, f1, h)
        e        == Expected(c1.m)
        c2       == tpm_i2c_read(c1.m, e, supported, f2, h)
        m2       == IF HeaderOnly(e) THEN c1.m ELSE c2.m
        made     == IF HeaderOnly(e) THEN <<CallOf(c1)>>
                    ELSE <<CallOf(c1), CallOf(c2)>>
        outside  == \/ ~HeaderOnly(e) /\ c2.moved > TPM_BUFSIZE
                    \/ e - uncopied > TPM_BUFSIZE
    IN  IF outside /\ trap
        THEN [m |-> m2, crashed |-> TRUE, ret |-> 0, expected |-> e,
              calls |-> made, user |-> NoUser]
        ELSE [m |-> m2, crashed |-> FALSE,
              ret |-> IF uncopied # 0 THEN -EFAULT ELSE e,
              expected |-> e, calls |-> made,
              user |-> copy_to_user(m2, e, uncopied)]

---------------------------------------------------------------------------
(* The file operations, one whole handler per step.                        *)

Init ==
    /\ tpm_dev = <<ZeroLayer(TPM_BUFSIZE)>>
    /\ master_xfer \in BOOLEAN
    /\ crashed = FALSE
    /\ op = "none"
    /\ arg = [count |-> 0]
    /\ ret = 0
    /\ expected = 0
    /\ calls = <<>>
    /\ wire = <<>>
    /\ user = NoUser
    /\ pc = "idle"
    /\ len = 0
    /\ trapdoor = 0
    /\ rc = 0
    /\ lock = FALSE
    /\ xfers = 0
    /\ hits = 0
    /\ retval = 0
    /\ rpc = "start"
    /\ wpc = "start"
    /\ warg = [count |-> 0, payload |-> <<0>>]
    /\ wret = 0

\* What read() decodes after its header read, lines 116-122, when that read
\* sees f1 failing transfers and the device answers with length field h.
ExpectedOf(f1, h) ==
    Expected(tpm_i2c_read(memset(Aged(tpm_dev)), TPM_HEADER_SIZE,
                          master_xfer, f1, h).m)

Read ==
    /\ ~crashed
    /\ \E count \in ReadCounts, f1 \in FailCounts :
       \E h \in (IF master_xfer /\ f1 < trapdoor_limit THEN HeaderPairs
                 ELSE {<<0, 0>>}) :
       \E f2 \in (IF HeaderOnly(ExpectedOf(f1, h)) \/ ~master_xfer THEN {0}
                  ELSE FailCounts) :
       \E uncopied \in Uncopied(ExpectedOf(f1, h)) :
       \E trap \in (IF ExpectedOf(f1, h) > TPM_BUFSIZE THEN BOOLEAN
                    ELSE {FALSE}) :
          LET r == tpm_tis_i2c_read(Aged(tpm_dev), count, master_xfer, f1, h, f2,
                                    uncopied, trap)
          IN  /\ tpm_dev' = r.m
              /\ crashed' = r.crashed
              /\ op' = "read"
              /\ arg' = [count |-> count]
              /\ ret' = r.ret
              /\ expected' = r.expected
              /\ calls' = r.calls
              /\ wire' = <<>>
              /\ user' = r.user
    /\ UNCHANGED <<master_xfer, retryvars, procvars>>

Write ==
    /\ ~crashed
    /\ \E count \in WriteCounts, p \in Payloads :
       \E uncopied \in (IF WriteTooLong(count) THEN {0} ELSE Uncopied(count)) :
       \E r \in (IF WriteTooLong(count) \/ uncopied # 0 THEN {1}
                 ELSE RawResults) :
          LET w == tpm_tis_i2c_write(Aged(tpm_dev), count, p, uncopied, r)
          IN  /\ tpm_dev' = w.m
              /\ op' = "write"
              /\ arg' = [count |-> count, payload |-> p,
                         uncopied |-> uncopied]
              /\ ret' = w.ret
              /\ wire' = w.wire
    /\ expected' = 0
    /\ calls' = <<>>
    /\ user' = NoUser
    /\ UNCHANGED <<master_xfer, crashed, retryvars, procvars>>

\* tpm_tis_i2c_open and tpm_tis_i2c_release, lines 177-185.
Open ==
    /\ ~crashed
    /\ op' = "open"
    /\ arg' = [count |-> 0]
    /\ ret' = 0
    /\ expected' = 0
    /\ calls' = <<>>
    /\ wire' = <<>>
    /\ user' = NoUser
    /\ tpm_dev' = Aged(tpm_dev)
    /\ UNCHANGED <<master_xfer, crashed, retryvars, procvars>>

Release ==
    /\ ~crashed
    /\ op' = "release"
    /\ arg' = [count |-> 0]
    /\ ret' = 0
    /\ expected' = 0
    /\ calls' = <<>>
    /\ wire' = <<>>
    /\ user' = NoUser
    /\ tpm_dev' = Aged(tpm_dev)
    /\ UNCHANGED <<master_xfer, crashed, retryvars, procvars>>

Next == Read \/ Write \/ Open \/ Release

Spec == Init /\ [][Next]_vars

---------------------------------------------------------------------------
(* One read() from the loaded driver, for every length field the device can *)
(* send.                                                                    *)

\* The values of a u8, line 56.
Bytes == 0..255

\* tpm_dev.buf[4] and tpm_dev.buf[5] after the header read of line 117, when
\* that read sees f1 failing transfers and the device answers with length
\* field h.
HeaderBytes(f1, h) ==
    LET m == tpm_i2c_read(memset(Aged(tpm_dev)), TPM_HEADER_SIZE,
                          master_xfer, f1, h).m
    IN  <<ByteAt(m, 4), ByteAt(m, 5)>>

\* read(), lines 109-145, as the first operation; arg also records the two
\* bytes the header read left at offsets 4 and 5.
ReadAny ==
    /\ op = "none"
    /\ \E count \in ReadCounts, f1 \in {0, trapdoor_limit} :
       \E h \in (IF master_xfer /\ f1 < trapdoor_limit THEN Bytes \X Bytes
                 ELSE {<<0, 0>>}) :
       \E uncopied \in {0, ExpectedOf(f1, h)} :
       \E trap \in (IF ExpectedOf(f1, h) > TPM_BUFSIZE THEN BOOLEAN
                    ELSE {FALSE}) :
          LET r == tpm_tis_i2c_read(Aged(tpm_dev), count, master_xfer, f1, h,
                                    0, uncopied, trap)
          IN  /\ tpm_dev' = r.m
              /\ crashed' = r.crashed
              /\ op' = "read"
              /\ arg' = [count |-> count, header |-> HeaderBytes(f1, h)]
              /\ ret' = r.ret
              /\ expected' = r.expected
              /\ calls' = r.calls
              /\ wire' = <<>>
              /\ user' = r.user
    /\ UNCHANGED <<master_xfer, retryvars, procvars>>

NextDecode == ReadAny

SpecDecode == Init /\ [][NextDecode]_vars

---------------------------------------------------------------------------
(* tpm_i2c_read statement by statement, lines 75-107: one call, the retry  *)
(* loop taken one attempt at a time.                                       *)

\* Line 93: the transfer succeeded.
Successful(r) == r > 0

\* Line 97: the loop condition.
LoopAgain(t) == t < trapdoor_limit

\* A variant of Exhausted that is off by one: it takes a success on the last
\* attempt for a timeout.
Exhausted_early(t) == t >= trapdoor_limit - 1

\* Line 103: the retry budget is used up.
Exhausted(t) == t >= trapdoor_limit

\* A caller enters tpm_i2c_read(tpm_dev.buf, n); lines 78-82.
RetryCall ==
    /\ pc = "idle"
    /\ \E n \in RetryLens : len' = n
    /\ trapdoor' = 0
    /\ pc' = "check"
    /\ UNCHANGED <<tpm_dev, master_xfer, opvars, procvars,
                   rc, lock, xfers, hits,
                   retval>>

\* Lines 85-87: without master_xfer return -EOPNOTSUPP, else lock the
\* adapter.
RetryCheck ==
    /\ pc = "check"
    /\ IF ~master_xfer
       THEN /\ retval' = U8(-EOPNOTSUPP)
            /\ pc' = "done"
            /\ lock' = lock
       ELSE /\ lock' = TRUE
            /\ pc' = "xfer"
            /\ retval' = retval
    /\ UNCHANGED <<tpm_dev, master_xfer, opvars, procvars,
                   len, trapdoor, rc, xfers,
                   hits>>

\* Lines 92-95: one i2c_transfer, which reports r, the device sending a
\* response with length field h; a positive result leaves the loop, any
\* other counts against the budget.
Attempt(h) ==
    /\ pc = "xfer"
    /\ \E r \in RawResults :
          /\ rc' = r
          /\ xfers' = xfers + 1
          /\ IF Successful(r)
             THEN /\ tpm_dev' = i2c_transfer_read(tpm_dev, len, h)
                  /\ hits' = hits + 1
                  /\ trapdoor' = trapdoor
                  /\ pc' = "unlock"
             ELSE /\ tpm_dev' = tpm_dev
                  /\ hits' = hits
                  /\ trapdoor' = trapdoor + 1
                  /\ pc' = "sleep"
    /\ UNCHANGED <<master_xfer, opvars, procvars,
                   len, lock, retval>>

\* Lines 92-95 against a device whose response is MidLen bytes long.
RetryAttempt == Attempt(RetryHeader)

\* A variant of RetrySleep that gives the adapter up for the delay, a lock
\* per transfer rather than per call.
RetrySleep_release ==
    /\ pc = "sleep"
    /\ lock' = FALSE
    /\ pc' = IF LoopAgain(trapdoor) THEN "xfer" ELSE "unlock"
    /\ UNCHANGED <<tpm_dev, master_xfer, opvars, procvars,
                   len, trapdoor, rc, xfers,
                   hits, retval>>

\* Lines 96-97: msleep(5), then the loop condition.
RetrySleep ==
    /\ pc = "sleep"
    /\ pc' = IF LoopAgain(trapdoor) THEN "xfer" ELSE "unlock"
    /\ UNCHANGED <<tpm_dev, master_xfer, opvars, procvars,
                   len, trapdoor, rc, lock,
                   xfers, hits, retval>>

\* A variant of RetryUnlock that leaves the loop without the unlock call.
RetryUnlock_keep ==
    /\ pc = "unlock"
    /\ pc' = "return"
    /\ UNCHANGED <<tpm_dev, master_xfer, opvars, procvars,
                   len, trapdoor, rc, lock,
                   xfers, hits, retval>>

\* Line 100: i2c_unlock_adapter.
RetryUnlock ==
    /\ pc = "unlock"
    /\ lock' = FALSE
    /\ pc' = "return"
    /\ UNCHANGED <<tpm_dev, master_xfer, opvars, procvars,
                   len, trapdoor, rc, xfers,
                   hits, retval>>

\* Lines 103-106: return -EFAULT or rc, converted to u8.
RetryReturn ==
    /\ pc = "return"
    /\ retval' = IF Exhausted(trapdoor) THEN U8(-EFAULT) ELSE U8(rc)
    /\ pc' = "done"
    /\ UNCHANGED <<tpm_dev, master_xfer, opvars, procvars,
                   len, trapdoor, rc, lock,
                   xfers, hits>>

NextRetry ==
    \/ RetryCall
    \/ RetryCheck
    \/ RetryAttempt
    \/ RetrySleep
    \/ RetryUnlock
    \/ RetryReturn

SpecRetry == Init /\ [][NextRetry]_vars

\* The closed form Spec uses gives the result, the number of transfers, the
\* lock calls and the memory that the loop itself ends with.
RetrySummaryAgrees ==
    pc = "done" =>
        LET c == tpm_i2c_read(<<ZeroLayer(TPM_BUFSIZE)>>, len, master_xfer,
                              xfers - hits, RetryHeader)
        IN  /\ retval = c.ret
            /\ xfers = c.attempts
            /\ tpm_dev = c.m
            /\ (hits = 1) = (c.moved = len)
            /\ lock = FALSE

---------------------------------------------------------------------------
(* read() and write() statement by statement, one thread in each, with no  *)
(* serialization by the caller: the statements of the two threads          *)
(* interleave freely. The thread in read() runs tpm_i2c_read through the   *)
(* Retry actions above. i2c_transfer is the raw transfer, as the driver's  *)
(* own locking around it takes it to be.                                   *)

\* The most failed transfers the device answers one tpm_i2c_read call with
\* while both threads run.
MaxNacks == 2

\* The counts and copy outcomes the thread in write() is given.
ConcCounts == {MidLen, TPM_BUFSIZE + 1}

\* The record of a tpm_i2c_read call that has returned.
Returned == [len |-> len, ret |-> retval, moved |-> IF hits = 1 THEN len ELSE 0]

\* Line 116: memset(tpm_dev.buf, 0x00, TPM_BUFSIZE).
RdMemset ==
    /\ rpc = "start"
    /\ tpm_dev' = memset(tpm_dev)
    /\ rpc' = "header"
    /\ UNCHANGED <<master_xfer, opvars, retryvars, wpc, warg, wret>>

\* Line 117: the call tpm_i2c_read(tpm_dev.buf, TPM_HEADER_SIZE).
RdHeader ==
    /\ rpc = "header"
    /\ pc = "idle"
    /\ len' = TPM_HEADER_SIZE
    /\ trapdoor' = 0
    /\ xfers' = 0
    /\ hits' = 0
    /\ pc' = "check"
    /\ rpc' = "header_wait"
    /\ UNCHANGED <<tpm_dev, master_xfer, opvars, rc, lock, retval, wpc, warg,
                   wret>>

\* Lines 117-128: the header read has returned; decode expected from
\* tpm_dev.buf[4] and tpm_dev.buf[5] as they are now, and branch.
RdDecode ==
    /\ rpc = "header_wait"
    /\ pc = "done"
    /\ expected' = Expected(tpm_dev)
    /\ calls' = Append(calls, Returned)
    /\ pc' = "idle"
    /\ rpc' = IF HeaderOnly(Expected(tpm_dev)) THEN "copy" ELSE "body"
    /\ UNCHANGED <<tpm_dev, master_xfer, crashed, op, arg, ret, wire, user,
                   len, trapdoor, rc, lock, xfers, hits, retval, wpc, warg,
                   wret>>

\* Line 135: the call tpm_i2c_read(tpm_dev.buf, expected).
RdBody ==
    /\ rpc = "body"
    /\ pc = "idle"
    /\ len' = expected
    /\ trapdoor' = 0
    /\ xfers' = 0
    /\ hits' = 0
    /\ pc' = "check"
    /\ rpc' = "body_wait"
    /\ UNCHANGED <<tpm_dev, master_xfer, opvars, rc, lock, retval, wpc, warg,
                   wret>>

\* Line 135: the body read has returned.
RdBodyDone ==
    /\ rpc = "body_wait"
    /\ pc = "done"
    /\ calls' = Append(calls, Returned)
    /\ pc' = "idle"
    /\ rpc' = "copy"
    /\ UNCHANGED <<tpm_dev, master_xfer, crashed, op, arg, ret, expected,
                   wire, user, len, trapdoor, rc, lock, xfers, hits, retval,
                   wpc, warg, wret>>

\* Lines 137-144: copy_to_user of expected bytes of tpm_dev.buf as they are
\* now, and the return; an access outside tpm_dev.buf that this read() made
\* may have faulted.
RdCopy ==
    /\ rpc = "copy"
    /\ \E uncopied \in Uncopied(expected) :
       \E trap \in (IF expected > TPM_BUFSIZE THEN BOOLEAN ELSE {FALSE}) :
          IF trap
          THEN /\ crashed' = TRUE
               /\ ret' = 0
               /\ user' = NoUser
               /\ rpc' = "fault"
          ELSE /\ crashed' = FALSE
               /\ ret' = IF uncopied # 0 THEN -EFAULT ELSE expected
               /\ user' = copy_to_user(tpm_dev, expected, uncopied)
               /\ rpc' = "done"
    /\ UNCHANGED <<tpm_dev, master_xfer, op, arg, expected, calls, wire,
                   retryvars, wpc, warg, wret>>

\* Lines 92-95 while both threads run: the device fails at most MaxNacks
\* transfers of a call.
RdAttempt == RetryAttempt /\ trapdoor' <= MaxNacks

\* Lines 152-157: write() is entered with count bytes of payload p; the
\* size check.
WrCheck ==
    /\ wpc = "start"
    /\ \E count \in ConcCounts, p \in Payloads :
          /\ warg' = [count |-> count, payload |-> p]
          /\ IF WriteTooLong(count)
             THEN /\ wret' = -EINVAL
                  /\ wpc' = "done"
             ELSE /\ wret' = wret
                  /\ wpc' = "memset"
    /\ UNCHANGED <<tpm_dev, master_xfer, opvars, retryvars, rpc>>

\* Line 161: memset(tpm_dev.buf, 0x00, TPM_BUFSIZE).
WrMemset ==
    /\ wpc = "memset"
    /\ tpm_dev' = memset(tpm_dev)
    /\ wpc' = "copy"
    /\ UNCHANGED <<master_xfer, opvars, retryvars, rpc, warg, wret>>

\* Lines 162-164: copy_from_user, which leaves `uncopied` bytes uncopied.
WrCopy ==
    /\ wpc = "copy"
    /\ \E uncopied \in Uncopied(warg.count) :
          /\ tpm_dev' = copy_from_user(tpm_dev, warg.payload, warg.count,
                                       uncopied)
          /\ IF uncopied # 0
             THEN /\ wret' = -EFAULT
                  /\ wpc' = "done"
             ELSE /\ wret' = wret
                  /\ wpc' = "xfer"
    /\ UNCHANGED <<master_xfer, opvars, retryvars, rpc, warg>>

\* Lines 166-174: i2c_transfer of count bytes of tpm_dev.buf as they are
\* now, which reports r, and the return. No statement of write() locks the
\* adapter; held records whether the thread in read() holds it meanwhile.
WrTransfer ==
    /\ wpc = "xfer"
    /\ \E r \in RawResults :
          /\ wire' = Append(wire, [len  |-> warg.count, rc |-> r,
                                   data |-> Prefix(tpm_dev, warg.count),
                                   held |-> lock])
          /\ wret' = WriteResult(warg.count, r)
    /\ wpc' = "done"
    /\ UNCHANGED <<tpm_dev, master_xfer, crashed, op, arg, ret, expected,
                   calls, user, retryvars, rpc, warg>>

NextConc ==
    \/ RdMemset
    \/ RdHeader
    \/ RetryCheck
    \/ RdAttempt
    \/ RetrySleep
    \/ RetryUnlock
    \/ RetryReturn
    \/ RdDecode
    \/ RdBody
    \/ RdBodyDone
    \/ RdCopy
    \/ WrCheck
    \/ WrMemset
    \/ WrCopy
    \/ WrTransfer

SpecConc == Init /\ [][NextConc]_vars

\* The length fields of the device in SpecReadFair: a response of MidLen
\* bytes and one of TPM_BUFSIZE + 1 bytes.
LongHeader == <<(TPM_BUFSIZE + 1) \div 256, (TPM_BUFSIZE + 1) % 256>>

\* Lines 92-95 against a device that sends either response.
RdAttemptAny == \E h \in {RetryHeader, LongHeader} : Attempt(h)

\* The thread in read() alone, against a device that may fail every
\* transfer, and scheduled again and again: msleep(5) returns and a
\* statement that can run does run.
NextRead ==
    \/ RdMemset
    \/ RdHeader
    \/ RetryCheck
    \/ RdAttemptAny
    \/ RetrySleep
    \/ RetryUnlock
    \/ RetryReturn
    \/ RdDecode
    \/ RdBody
    \/ RdBodyDone
    \/ RdCopy

SpecReadFair == Init /\ [][NextRead]_vars /\ WF_vars(NextRead)

\* Under SpecReadFair every tpm_i2c_read call that is entered returns, and
\* a read() never makes a third call.
RetryCallReturns == (pc = "check") ~> (pc = "done")

ReadReturnsOrFaults == (rpc = "start") ~> (rpc \in {"done", "fault"})

AtMostTwoCalls == Len(calls) <= 2

---------------------------------------------------------------------------
(* The claims.                                                             *)

Range(f) == {f[k] : k \in DOMAIN f}

\* A tpm_i2c_read call that used up its retry budget.
TimedOut(c) == c.attempts = trapdoor_limit /\ c.moved = 0

\* C1: no operation writes into or reads out of tpm_dev.buf at an index
\* >= TPM_BUFSIZE: every bus transfer that targets the buffer moves at most
\* TPM_BUFSIZE bytes, every copy to or from the caller is of at most
\* TPM_BUFSIZE bytes, and nothing is ever stored past the buffer's end.
C1_NoAccessPastCapacity ==
    /\ \A c \in Range(calls) : c.moved <= TPM_BUFSIZE
    /\ \A w \in Range(wire) : w.len <= TPM_BUFSIZE
    /\ user.len <= TPM_BUFSIZE
    /\ \A l \in Range(tpm_dev) : l.n <= TPM_BUFSIZE
    /\ ~crashed

\* C2: a read() in which tpm_i2c_read used up its retry budget, in the
\* header read or in the body read, returns a negative error code and
\* delivers no byte to the caller.
C2_TimeoutReturnsFault ==
    (op = "read" /\ ~crashed /\ \E c \in Range(calls) : TimedOut(c))
        => (ret < 0 /\ user.len = 0)

\* C3: tpm_i2c_read stops at the first raw transfer whose result is > 0 and
\* returns that result, making no further transfer, also when it is the
\* 60000th; when the first 60000 transfers all report <= 0 it returns
\* -EFAULT (as its u8 return type carries it) after exactly 60000 of them;
\* it never makes more than 60000 transfers.
C3_RetryStopsAtFirstSuccess ==
    /\ xfers <= trapdoor_limit
    /\ hits <= 1
    /\ hits = 1 => (rc > 0 /\ pc \in {"unlock", "return", "done"})
    /\ (pc = "done" /\ master_xfer) =>
          IF hits = 1
          THEN retval = rc
          ELSE xfers = trapdoor_limit /\ retval = U8(-EFAULT)

\* C3's case: the 60000th transfer is the first to succeed and its result is
\* returned.
C3_Witness ==
    /\ pc = "done"
    /\ hits = 1
    /\ xfers = trapdoor_limit
    /\ retval = 1

\* C4: a read() whose decoded length is > TPM_HEADER_SIZE makes exactly two
\* tpm_i2c_read calls, the first of TPM_HEADER_SIZE bytes and the second of
\* `expected` bytes to offset 0 of tpm_dev.buf, then delivers exactly
\* `expected` bytes of tpm_dev.buf to the caller and returns `expected`.
\* (Stated in the claim's favour: a read() whose copy_to_user fails may
\* return -EFAULT instead.)
C4_LongResponseTwoReads ==
    (op = "read" /\ expected > TPM_HEADER_SIZE) =>
        /\ Len(calls) = 2
        /\ calls[1].len = TPM_HEADER_SIZE
        /\ calls[2].len = expected
        /\ calls[2].off = 0
        /\ ~crashed
        /\ IF user.uncopied = 0
           THEN /\ user.len = expected
                /\ user.data = Prefix(tpm_dev, expected)
                /\ \A l \in Range(user.data) : l.n <= TPM_BUFSIZE
                /\ ret = expected
           ELSE ret = -EFAULT

\* C5 as stated: a read() whose decoded length is <= TPM_HEADER_SIZE (0
\* included) makes exactly one tpm_i2c_read call, the header read, delivers
\* `expected` bytes of the buffer to the caller and returns `expected`.
C5_ShortResponseOneRead ==
    (op = "read" /\ expected <= TPM_HEADER_SIZE) =>
        /\ Len(calls) = 1
        /\ calls[1].len = TPM_HEADER_SIZE
        /\ user.len = expected
        /\ user.data = Prefix(tpm_dev, expected)
        /\ ret = expected

\* C5 as amended: a read() whose decoded length is <= TPM_HEADER_SIZE makes
\* exactly one tpm_i2c_read call, the header read; when copy_to_user succeeds
\* it has delivered `expected` bytes of the buffer and read() returns
\* `expected`, and when copy_to_user fails read() returns -EFAULT.
C5_ShortResponseOneReadOrFault ==
    (op = "read" /\ expected <= TPM_HEADER_SIZE) =>
        /\ Len(calls) = 1
        /\ calls[1].len = TPM_HEADER_SIZE
        /\ ~crashed
        /\ IF user.uncopied = 0
           THEN /\ user.len = expected
                /\ user.data = Prefix(tpm_dev, expected)
                /\ ret = expected
           ELSE ret = -EFAULT

\* C5's case: a response of exactly TPM_HEADER_SIZE bytes, read in one call
\* and delivered whole.
C5_Witness ==
    /\ op = "read"
    /\ expected = TPM_HEADER_SIZE
    /\ Len(calls) = 1
    /\ calls[1].moved = TPM_HEADER_SIZE
    /\ user.len = TPM_HEADER_SIZE
    /\ ret = TPM_HEADER_SIZE

\* C6: a write() with count > TPM_BUFSIZE returns -EINVAL and issues no bus
\* transfer; a write() with count <= TPM_BUFSIZE (TPM_BUFSIZE included)
\* whose copy from the caller succeeds and whose raw transfer reports a
\* positive result returns exactly count.
C6_WriteSizeCheck ==
    op = "write" =>
        /\ arg.count > TPM_BUFSIZE => (ret = -EINVAL /\ wire = <<>>)
        /\ (arg.count <= TPM_BUFSIZE /\ arg.uncopied = 0) =>
              /\ Len(wire) = 1
              /\ wire[1].rc > 0 => ret = arg.count

\* C6's case: the boundary count = TPM_BUFSIZE is accepted and returned.
C6_Witness ==
    /\ op = "write"
    /\ arg.count = TPM_BUFSIZE
    /\ Len(wire) = 1
    /\ wire[1].rc > 0
    /\ ret = TPM_BUFSIZE

\* C7: a write() that passes the size check and copies its payload issues
\* exactly one raw write transfer, of count bytes, and returns -EIO when the
\* transfer reports <= 0 and count otherwise; a failed copy from the caller
\* returns -EFAULT with no transfer issued; so write() returns count or an
\* error, never a byte count strictly between 0 and count.
C7_WriteAllOrNothing ==
    op = "write" =>
        /\ (arg.count <= TPM_BUFSIZE /\ arg.uncopied = 0) =>
              /\ Len(wire) = 1
              /\ wire[1].len = arg.count
              /\ ret = IF wire[1].rc <= 0 THEN -EIO ELSE arg.count
        /\ (arg.count <= TPM_BUFSIZE /\ arg.uncopied # 0) =>
              (ret = -EFAULT /\ wire = <<>>)
        /\ ret = arg.count \/ ret \in {-EINVAL, -EFAULT, -EIO}
        /\ ~(0 < ret /\ ret < arg.count)

\* C7's case: the one raw transfer of a full-size write fails and write()
\* returns -EIO.
C7_Witness ==
    /\ op = "write"
    /\ arg.count = TPM_BUFSIZE
    /\ Len(wire) = 1
    /\ wire[1].rc <= 0
    /\ ret = -EIO

\* C8: on an adapter without master_xfer, tpm_i2c_read fails with
\* -EOPNOTSUPP without locking the adapter and without any bus transfer, and
\* read() then returns a negative error code at once, without a second call.
C8_NotSupportedSurfaced ==
    (op = "read" /\ ~master_xfer) =>
        /\ Len(calls) = 1
        /\ calls[1].locks = 0
        /\ calls[1].attempts = 0
        /\ calls[1].ret = U8(-EOPNOTSUPP)
        /\ ret < 0

\* C9: with operations called one after the other, a read() delivers to its
\* caller only bytes the device sent during that same read() and zeros: no
\* byte that an earlier read() or write() stored is delivered by a later
\* read(). (Stated in the claim's favour: delivered bytes of memory that no
\* operation of the driver stored are not held against it.)
C9_NoStaleBytesDelivered ==
    (op = "read" /\ ~crashed) =>
        \A l \in Range(user.data) : Origin(l) \in {"zero", "dev", "mem"}

\* C10: after a write() that passes the size check and copies n bytes from
\* the caller, tpm_dev.buf[0..n) holds the payload and tpm_dev.buf[n..
\* TPM_BUFSIZE) is zero, whatever the buffer held before; and the bytes put
\* on the bus are exactly the payload.
C10_WriteLeavesNoResidue ==
    (op = "write" /\ arg.count <= TPM_BUFSIZE) =>
        LET n == arg.count - arg.uncopied
        IN  /\ \A i \in BufIndex :
                  ByteAt(tpm_dev, i) =
                      IF i < n THEN PayloadByte(arg.payload, i) ELSE 0
            /\ \A w \in Range(wire) :
                  /\ w.len = arg.count
                  /\ \A i \in 0..(w.len - 1) :
                        ByteAt(w.data, i) = PayloadByte(arg.payload, i)

\* C10's case: a short write after a read whose device data filled the
\* whole buffer and more; the MidLen payload bytes went out and the rest of
\* the buffer is zero.
C10_Witness ==
    /\ op = "write"
    /\ arg.count = MidLen
    /\ ret = MidLen
    /\ \E l \in Range(tpm_dev) : l.kind = "dev" /\ l.n > TPM_BUFSIZE
    /\ ByteAt(tpm_dev, MidLen) = 0

C17_LockBalanced ==
    /\ pc \in {"idle", "check", "return", "done"} => ~lock
    /\ (pc = "done" /\ ~master_xfer) => (xfers = 0 /\ ~lock)

\* C17's case: a call that used up its whole budget has returned and the
\* lock is free.
C17_Witness ==
    /\ pc = "done"
    /\ master_xfer
    /\ hits = 0
    /\ xfers = trapdoor_limit
    /\ ~lock

\* C19: what tpm_i2c_read returns is a u8, a value in 0..255: a failure
\* comes back as its negative error code plus 256, 242 for -EFAULT and 161
\* for -EOPNOTSUPP, which is > 0 like a success, so that no returned value
\* is negative.
C19_ReturnIsUnsignedByte ==
    pc = "done" =>
        /\ retval \in 0..255
        /\ ~master_xfer => retval = 256 - EOPNOTSUPP
        /\ (master_xfer /\ hits = 0) => retval = 256 - EFAULT
        /\ (master_xfer /\ hits = 1) => retval = rc
        /\ retval > 0

\* C19's case: a call that timed out has returned 242.
C19_Witness ==
    /\ pc = "done"
    /\ master_xfer
    /\ hits = 0
    /\ retval = 242

\* C18: a write() with count > TPM_BUFSIZE returns -EINVAL and leaves every
\* byte of tpm_dev.buf as it was, puts nothing on the bus and does not touch
\* the adapter lock: the size check comes before the memset.
C18_RejectedWriteChangesNothing ==
    [][(op' = "write" /\ WriteTooLong(arg'.count)) =>
          /\ ret' = -EINVAL
          /\ \A i \in BufIndex : ByteAt(tpm_dev', i) = ByteAt(tpm_dev, i)
          /\ wire' = <<>>
          /\ lock' = lock]_vars

\* C18's case: a write() of TPM_BUFSIZE + 1 bytes was rejected while the
\* buffer held the payload of an earlier write(), which is still there.
C18_Witness ==
    /\ op = "write"
    /\ arg.count = TPM_BUFSIZE + 1
    /\ ret = -EINVAL
    /\ wire = <<>>
    /\ \E l \in Range(tpm_dev) : l.kind = "usr" /\ l.n > 0
    /\ ByteAt(tpm_dev, 0) # 0

\* C11: what read() does is the same for every requested count: from any
\* state, two read() calls that differ only in count and meet the same
\* device answers, the same copy_to_user outcome and the same fault
\* behaviour make the same tpm_i2c_read calls, leave the same memory, deliver
\* the same bytes and return the same value.
C11_CountIgnored ==
    ~crashed =>
        \A f1 \in FailCounts :
        \A h \in (IF master_xfer /\ f1 < trapdoor_limit THEN HeaderPairs
                  ELSE {<<0, 0>>}) :
        \A f2 \in (IF HeaderOnly(ExpectedOf(f1, h)) \/ ~master_xfer THEN {0}
                   ELSE FailCounts) :
        \A uncopied \in Uncopied(ExpectedOf(f1, h)) :
        \A trap \in (IF ExpectedOf(f1, h) > TPM_BUFSIZE THEN BOOLEAN
                     ELSE {FALSE}) :
        \A c1, c2 \in ReadCounts :
            tpm_tis_i2c_read(Aged(tpm_dev), c1, master_xfer, f1, h, f2,
                             uncopied, trap)
            = tpm_tis_i2c_read(Aged(tpm_dev), c2, master_xfer, f1, h, f2,
                               uncopied, trap)

\* C11's case: a read() asked for 0 bytes has made both tpm_i2c_read calls,
\* delivered the whole MidLen-byte response and returned MidLen.
C11_Witness ==
    /\ op = "read"
    /\ arg.count = 0
    /\ expected = MidLen
    /\ Len(calls) = 2
    /\ user.len = MidLen
    /\ ret = MidLen

\* C12 as stated: whatever bytes b4 and b5 the header read leaves at
\* offsets 4 and 5, read() decodes expected = b4 * 256 + b5, a value in
\* 0..65535, and that value is what read() returns.
C12_DecodedIsReturned ==
    op = "read" =>
        /\ expected = (arg.header[1] * 256) + arg.header[2]
        /\ expected \in 0..65535
        /\ ret = expected

\* C12 as amended: whatever bytes b4 and b5 the header read leaves at
\* offsets 4 and 5, read() decodes expected = b4 * 256 + b5, a value in
\* 0..65535; a read() that returns after a copy_to_user that succeeded
\* returns that value, and one whose copy_to_user failed returns -EFAULT.
C12_DecodedIsReturnedOrFault ==
    op = "read" =>
        /\ arg.header[1] \in Bytes
        /\ arg.header[2] \in Bytes
        /\ expected = (arg.header[1] * 256) + arg.header[2]
        /\ expected \in 0..65535
        /\ ~crashed =>
              ret = IF user.uncopied = 0 THEN expected ELSE -EFAULT

\* C12's case: the header read left 255, 255 and read() returned 65535.
C12_Witness ==
    /\ op = "read"
    /\ arg.header = <<255, 255>>
    /\ expected = 65535
    /\ ret = 65535

C14_TransfersExcludeEachOther ==
    /\ pc = "xfer" => lock
    /\ \A w \in Range(wire) : ~w.held

\* C15: nothing keeps the other thread out between read()'s memset and its
\* copy_to_user: the adapter lock is held only inside a tpm_i2c_read call,
\* not before the header read, between the header read and the body read,
\* or at the copy.
C15_LockOnlyInsideRetry ==
    rpc \notin {"header_wait", "body_wait"} => ~lock

\* C15's case: a read() that made both tpm_i2c_read calls on a working
\* adapter has returned `expected` after delivering bytes that a write() in
\* the other thread copied into tpm_dev.buf meanwhile.
C15_Witness ==
    /\ rpc = "done"
    /\ master_xfer
    /\ ~crashed
    /\ Len(calls) = 2
    /\ ret = expected
    /\ user.len = expected
    /\ \E l \in Range(user.data) : l.kind = "usr" /\ l.n > 0

=============================================================================
